---- MODULE Spec2Model ----
(***************************************************************************)
(* The ingestion coordinator of s3_postgres_lambda/add_lambda_function.py: *)
(* lambda_handler, does_object_exist, delete_from_postgres and add_files.  *)
(* Strings are sequences of one-character strings.  The external services  *)
(* (object storage, database, batch) answer nondeterministically; every    *)
(* call made to them during one invocation is recorded in `calls`.         *)
(***************************************************************************)
EXTENDS Integers, Sequences, FiniteSets, TLC

(* ------------------------------ bounds -------------------------------- *)

\* longest enumerated notification key
MaxKeyLen == 3
\* longest object listing returned by list_objects_v2
MaxListing == 3

(* --------------------------- string helpers --------------------------- *)

\* the printable ASCII characters, code points 32..126 (the grave accent,
\* which a TLA+ string cannot hold, goes by its escape)
Printable ==
  << " ", "!", "\"", "#", "$", "%", "&", "'", "(", ")", "*", "+", ",", "-", ".", "/",
     "0", "1", "2", "3", "4", "5", "6", "7", "8", "9", ":", ";", "<", "=", ">", "?",
     "@", "A", "B", "C", "D", "E", "F", "G", "H", "I", "J", "K", "L", "M", "N", "O",
     "P", "Q", "R", "S", "T", "U", "V", "W", "X", "Y", "Z", "[", "\\", "]", "^", "_",
     "\\x60", "a", "b", "c", "d", "e", "f", "g", "h", "i", "j", "k", "l", "m", "n", "o",
     "p", "q", "r", "s", "t", "u", "v", "w", "x", "y", "z", "{", "|", "}", "~" >>

\* names of the control characters, code points 0..31
Control ==
  << "\\x00", "\\x01", "\\x02", "\\x03", "\\x04", "\\x05", "\\x06", "\\x07",
     "\\x08", "\\x09", "\\x0a", "\\x0b", "\\x0c", "\\x0d", "\\x0e", "\\x0f",
     "\\x10", "\\x11", "\\x12", "\\x13", "\\x14", "\\x15", "\\x16", "\\x17",
     "\\x18", "\\x19", "\\x1a", "\\x1b", "\\x1c", "\\x1d", "\\x1e", "\\x1f" >>

\* value of a hexadecimal digit, either case (urllib.parse._hextobyte)
HexVal ==
  [c \in {"0","1","2","3","4","5","6","7","8","9",
          "a","b","c","d","e","f","A","B","C","D","E","F"} |->
     CASE c = "0" -> 0  [] c = "1" -> 1  [] c = "2" -> 2  [] c = "3" -> 3
       [] c = "4" -> 4  [] c = "5" -> 5  [] c = "6" -> 6  [] c = "7" -> 7
       [] c = "8" -> 8  [] c = "9" -> 9
       [] c \in {"a", "A"} -> 10  [] c \in {"b", "B"} -> 11
       [] c \in {"c", "C"} -> 12  [] c \in {"d", "D"} -> 13
       [] c \in {"e", "E"} -> 14  [] c \in {"f", "F"} -> 15]

IsHex(c) == c \in DOMAIN HexVal

\* bytes.decode('utf-8', 'replace') of one byte that is not part of a valid
\* multi-byte sequence: ASCII maps to itself, anything else to U+FFFD.
\* (No enumerated key can spell a UTF-8 lead byte 0xC2..0xF4.)
DecodeByte(n) ==
  IF n < 32 THEN Control[n + 1]
  ELSE IF n < 127 THEN Printable[n - 31]
  ELSE IF n = 127 THEN "\\x7f"
  ELSE "\\ufffd"

Drop(s, n) == SubSeq(s, n + 1, Len(s))

\* urllib.parse.unquote on an ASCII string: one left-to-right pass; '%'
\* followed by two hex digits becomes the byte they spell, any other '%'
\* stays as it is; decoded output is never scanned again.
RECURSIVE unquote(_)
unquote(s) ==
  IF s = << >> THEN << >>
  ELSE IF s[1] = "%" /\ Len(s) >= 3 /\ IsHex(s[2]) /\ IsHex(s[3])
       THEN << DecodeByte(16 * HexVal[s[2]] + HexVal[s[3]]) >> \o unquote(Drop(s, 3))
       ELSE << s[1] >> \o unquote(Drop(s, 1))

IsPrefix(p, s) == Len(p) <= Len(s) /\ SubSeq(s, 1, Len(p)) = p

\* str.replace(old, new) for a non-empty old: leftmost, non-overlapping
RECURSIVE replace(_, _, _)
replace(s, old, new) ==
  IF s = << >> THEN << >>
  ELSE IF IsPrefix(old, s) THEN new \o replace(Drop(s, Len(old)), old, new)
  ELSE << s[1] >> \o replace(Drop(s, 1), old, new)

\* os.path.basename (posixpath): what follows the last '/'
RECURSIVE basename(_)
basename(p) ==
  IF p = << >> THEN << >>
  ELSE IF p[Len(p)] = "/" THEN << >>
  ELSE basename(SubSeq(p, 1, Len(p) - 1)) \o << p[Len(p)] >>

\* a substring test, used by the properties only
Contains(s, sub) == \E i \in 1..(Len(s) - Len(sub) + 1) : SubSeq(s, i, i + Len(sub) - 1) = sub

(* ------------------------- inputs and configuration ------------------- *)

\* characters the enumerated notification keys are spelled with
Alphabet == {"+", "%", "2", "0", "B", "/"}

RECURSIVE StringsUpTo(_)
StringsUpTo(n) ==
  IF n = 0 THEN {<< >>}
  ELSE LET shorter == StringsUpTo(n - 1)
       IN  shorter \cup {<< c >> \o t : c \in Alphabet, t \in {u \in shorter : Len(u) = n - 1}}

\* the key of the scenario of section 8, and keys that were encoded twice
ScenarioKey == << "a", "%", "2", "B", "b", ".", "p", "d", "f" >>
ExtraKeys ==
  { ScenarioKey,
    << "%", "2", "5", "2", "0" >>,
    << "%", "2", "5", "2", "B" >>,
    << "i", "n", "/", "m", "y", "+", "d", "o", "c", "%", "2", "8", "1", "%", "2", "9" >> }

\* raw object keys of a change notification (an object key is never empty)
Keys == (StringsUpTo(MaxKeyLen) \ {<< >>}) \cup ExtraKeys

\* a later record of the same notification
OtherRecord == [bucket |-> "other", key |-> << "z", "+", "z" >>]

Record(k) == [bucket |-> "docs", key |-> k]
Event(rt, has, recs) == [RequestType |-> rt, hasRecords |-> has, Records |-> recs]

\* the events lambda_handler is invoked with: the custom resource's (no
\* Records); storage notifications of one record, or of two; a notification
\* without entries; teardown events that carry records all the same
Events ==
  { Event(rt, FALSE, << >>) : rt \in {"Create", "Update", "Delete", "absent"} }
  \cup { Event("absent", TRUE, << Record(k) >>) : k \in Keys }
  \cup { Event("absent", TRUE, << Record(k), OtherRecord >>) : k \in ExtraKeys }
  \cup { Event("absent", TRUE, << >>) }
  \cup { Event("Delete", TRUE, recs) :
           recs \in {<< >>, << Record(ScenarioKey) >>, << Record(ScenarioKey), OtherRecord >>} }

\* os.environ names read under [] (a missing one raises KeyError)
PostgresVars ==
  << "POSTGRES_DB_NAME", "POSTGRES_USER", "POSTGRES_PASSWORD",
     "POSTGRES_HOST", "POSTGRES_PORT", "POSTGRES_TABLE_NAME" >>

\* the names add_files reads, in the order it reads them
AddFilesVars ==
  << "MY_AWS_ACCESS_KEY_ID", "MY_AWS_SECRET_ACCESS_KEY" >> \o PostgresVars \o
  << "EMBEDDING_PROVIDER", "EMBEDDING_MODEL_NAME", "EMBEDDING_PROVIDER_API_KEY",
     "CHUNKING_STRATEGY", "CHUNKING_MAX_CHARACTERS", "JOB_QUEUE", "JOB_DEFINITION" >>

Range(f) == {f[i] : i \in DOMAIN f}

AllVars == Range(AddFilesVars) \cup {"S3_BUCKET_NAME", "S3_NOTIFICATION_PREFIX"}

\* the configurations the function is deployed with
EnvChoices ==
  { AllVars \ m : m \in { {}, {"POSTGRES_DB_NAME"}, {"S3_BUCKET_NAME"},
                          {"JOB_QUEUE", "S3_NOTIFICATION_PREFIX"} } }

\* the values of S3_BUCKET_NAME and S3_NOTIFICATION_PREFIX when they are set
ConfiguredBucket == "docs"
ConfiguredPrefix == << "i", "n", "/" >>

\* the 'environment' overrides of a job, by name, with the os.environ name
\* each value is taken from ("" for a value that is not read from os.environ)
OverrideSource ==
  [ AWS_S3_URL                 |-> "",
    AWS_ACCESS_KEY_ID          |-> "MY_AWS_ACCESS_KEY_ID",
    AWS_SECRET_ACCESS_KEY      |-> "MY_AWS_SECRET_ACCESS_KEY",
    POSTGRES_DB_NAME           |-> "POSTGRES_DB_NAME",
    POSTGRES_USER              |-> "POSTGRES_USER",
    POSTGRES_PASSWORD          |-> "POSTGRES_PASSWORD",
    POSTGRES_HOST              |-> "POSTGRES_HOST",
    POSTGRES_PORT              |-> "POSTGRES_PORT",
    POSTGRES_TABLE_NAME        |-> "POSTGRES_TABLE_NAME",
    EMBEDDING_PROVIDER         |-> "EMBEDDING_PROVIDER",
    EMBEDDING_MODEL_NAME       |-> "EMBEDDING_MODEL_NAME",
    EMBEDDING_PROVIDER_API_KEY |-> "EMBEDDING_PROVIDER_API_KEY",
    CHUNKING_STRATEGY          |-> "CHUNKING_STRATEGY",
    CHUNKING_MAX_CHARACTERS    |-> "CHUNKING_MAX_CHARACTERS",
    LOCAL_FILE_DOWNLOAD_DIR    |-> "",
    APP_SCRIPT                 |-> "" ]

\* objects a listing can hold: key and size
ListingKeys ==
  { << "i", "n", "/" >>, << "i", "n", "/", "x", ".", "p", "d", "f" >>,
    << "i", "n", "/", "a", " ", "b" >>, << "i", "n", "/", "c", "+", "d" >> }
Sizes == {0, 10}
Items == [Key : ListingKeys, Size : Sizes]

\* listings of n objects with pairwise different keys
RECURSIVE ListingsOfLen(_)
ListingsOfLen(n) ==
  IF n = 0 THEN {<< >>}
  ELSE UNION { {<< it >> \o l : l \in {m \in ListingsOfLen(n - 1) :
                                          \A i \in 1..Len(m) : m[i].Key # it.Key}} :
               it \in Items }

Listings == UNION {ListingsOfLen(n) : n \in 0..MaxListing}

(* ------------------------------- state -------------------------------- *)

VARIABLES
  env,          \* os.environ: the names that are set
  pc,           \* where the invocation stands
  event,        \* the event being handled
  bucket_name,  \* lambda_handler's local
  document_key, \* the key the handler works with (decoded in record mode)
  s3_url,       \* lambda_handler's local
  response,     \* the 'Contents' of the listing
  contents,     \* the listed objects still to be visited
  connection,   \* delete_from_postgres: "None", "open" or "closed"
  cursor,       \* delete_from_postgres: "unbound", "open" or "closed"
  filename,     \* delete_from_postgres's parameter
  deleteExit,   \* how the last delete_from_postgres call ended
  calls,        \* the external calls of this invocation, in order
  result        \* how the invocation ended

\* what delete_from_postgres and add_files leave alone
locals == << env, event, bucket_name, document_key, s3_url, response, contents >>

vars == << env, pc, event, bucket_name, document_key, s3_url, response, contents,
           connection, cursor, filename, deleteExit, calls, result >>

NoEvent == [RequestType |-> "absent", hasRecords |-> FALSE, Records |-> << >>]
NoResult == [kind |-> "none", statusCode |-> 0, body |-> ""]
Returned(msg) == [kind |-> "return", statusCode |-> 200, body |-> msg]
Raised(exc) == [kind |-> "raise", statusCode |-> 0, body |-> exc]

Init ==
  /\ env \in EnvChoices
  /\ pc = "idle"
  /\ event = NoEvent
  /\ bucket_name = ""
  /\ document_key = << >>
  /\ s3_url = << >>
  /\ response = << >>
  /\ contents = << >>
  /\ filename = << >>
  /\ connection = "None"
  /\ cursor = "unbound"
  /\ deleteExit = "not called"
  /\ calls = << >>
  /\ result = NoResult

(* --------------------------- lambda_handler --------------------------- *)

\* a variant of lines 71-72 that turns '+' into a space before it
\* percent-decodes, the way urllib.parse.unquote_plus does
decoded_plus_first(raw_key) ==
  replace(unquote(replace(raw_key, << "+" >>, << " " >>)), << "%", "2", "0" >>, << " " >>)

\* lines 71-72: percent-decode, then '+' and '%20' to a space
decoded_document_with_spaces(raw_key) ==
  replace(replace(unquote(raw_key), << "+" >>, << " " >>), << "%", "2", "0" >>, << " " >>)

\* line 73 and line 104: f"s3://{bucket_name}/{key}"
S3Url(bucket, key) == << "s3://", bucket, "/" >> \o key

\* a variant of line 57 that looks for change records first
IsTeardownWithoutRecords(ev) ==
  ev.RequestType = "Delete" /\ ~(ev.hasRecords /\ ev.Records # << >>)

\* line 57
IsTeardown(ev) == ev.RequestType = "Delete"

\* a variant of lines 68-69 that reads the newest record
LastRecord(ev) == ev.Records[Len(ev.Records)]

\* lines 68-69: the record the handler reads
FirstRecord(ev) == ev.Records[1]

\* line 65
IsStorageChange(ev) == ev.hasRecords /\ ev.Records # << >>

\* one external call: the operation, the bucket or table it addresses, the
\* key, prefix, filename or URI it carries, a job's overrides, and the answer
Call(op, target, arg, overrides, outcome) ==
  [op |-> op, target |-> target, arg |-> arg, overrides |-> overrides, outcome |-> outcome]

\* the invocation ends: a return value, or an exception that leaves the handler
Finish(res) ==
  /\ pc' = "done"
  /\ result' = res

\* lines 55-73 and 91-93: classify the event
Invoke(ev) ==
  /\ pc = "idle"
  /\ event' = ev
  /\ calls' = << >>
  /\ connection' = "None"
  /\ cursor' = "unbound"
  /\ deleteExit' = "not called"
  /\ response' = << >>
  /\ contents' = << >>
  /\ filename' = << >>
  /\ IF IsTeardown(ev)
       THEN /\ Finish(Returned("Delete event - no action taken."))
            /\ UNCHANGED << bucket_name, document_key, s3_url >>
     ELSE IF IsStorageChange(ev)
       THEN /\ bucket_name' = FirstRecord(ev).bucket
            /\ document_key' = decoded_document_with_spaces(FirstRecord(ev).key)
            /\ s3_url' = S3Url(bucket_name', document_key')
            /\ pc' = "does_object_exist"
            /\ result' = NoResult
       ELSE /\ pc' = "list_objects"
            /\ result' = NoResult
            /\ UNCHANGED << bucket_name, document_key, s3_url >>
  /\ UNCHANGED env

(* -------------------------- does_object_exist ------------------------- *)

\* what head_object can answer: found, or a ClientError with this code, or
\* an error that is no ClientError
HeadAnswers == {"200", "404", "403", "EndpointConnectionError"}

\* a variant of lines 124-128 that takes every failure for 'not found'
any_failure_is_missing(answer) == IF answer = "200" THEN "True" ELSE "False"

\* a variant of lines 121-126 with the two answers swapped
exists_inverted(answer) ==
  IF answer = "200" THEN "False"
  ELSE IF answer = "404" THEN "True"
  ELSE IF answer = "EndpointConnectionError" THEN answer
  ELSE "ClientError"

\* lines 121-128: "True", "False", or the exception that propagates
does_object_exist(answer) ==
  IF answer = "200" THEN "True"
  ELSE IF answer = "404" THEN "False"
  ELSE IF answer = "EndpointConnectionError" THEN answer
  ELSE "ClientError"

\* line 75
DoesObjectExist ==
  /\ pc = "does_object_exist"
  /\ \E answer \in HeadAnswers :
       /\ calls' = Append(calls, Call("head_object", bucket_name, document_key, {}, answer))
       /\ LET r == does_object_exist(answer)
          IN  IF r = "True" THEN pc' = "read_postgres_config" /\ UNCHANGED result
              ELSE IF r = "False" THEN pc' = "add_files" /\ UNCHANGED result
              ELSE Finish(Raised(r))
  /\ UNCHANGED << locals, filename,
                  connection, cursor, deleteExit >>

\* the first name of the sequence that os.environ lacks, or ""
RECURSIVE FirstMissing(_, _)
FirstMissing(names, environ) ==
  IF names = << >> THEN ""
  ELSE IF names[1] \notin environ THEN names[1]
  ELSE FirstMissing(Tail(names), environ)

\* lines 76-85: the database parameters, read before the try of line 84,
\* and the call of delete_from_postgres
ReadPostgresConfig ==
  /\ pc = "read_postgres_config"
  /\ IF FirstMissing(PostgresVars, env) # ""
       THEN /\ Finish(Raised("KeyError"))
            /\ UNCHANGED << filename, deleteExit, calls >>
       ELSE /\ filename' = basename(document_key)
            /\ calls' = Append(calls, Call("delete_from_postgres", "POSTGRES_TABLE_NAME",
                                           filename', {}, "called"))
            /\ deleteExit' = "running"
            /\ pc' = "connect"
            /\ UNCHANGED result
  /\ UNCHANGED << locals,
                  connection, cursor >>

(* ------------------------- delete_from_postgres ----------------------- *)

Answers == {"ok", "error"}

\* a variant of lines 84-87 without the try
NotCaughtByHandler(exc) == FALSE

\* line 86: the except clause around the call of delete_from_postgres
CaughtByHandler(exc) == TRUE

\* an exception leaves delete_from_postgres (lines 84-87)
DeleteRaises(exc) ==
  /\ deleteExit' = exc
  /\ IF CaughtByHandler(exc)
       THEN pc' = "add_files" /\ UNCHANGED result
       ELSE Finish(Raised(exc))

\* lines 24-30, and line 42 when connect raises
Connect ==
  /\ pc = "connect"
  /\ \E a \in Answers :
       /\ calls' = Append(calls, Call("connect", "POSTGRES_DB_NAME", << >>, {}, a))
       /\ connection' = IF a = "ok" THEN "open" ELSE "None"
       /\ pc' = IF a = "ok" THEN "cursor" ELSE "finally_cursor"
  /\ UNCHANGED << locals, filename,
                  cursor, deleteExit, result >>

\* line 31
CreateCursor ==
  /\ pc = "cursor"
  /\ \E a \in Answers :
       /\ calls' = Append(calls, Call("cursor", "", << >>, {}, a))
       /\ cursor' = IF a = "ok" THEN "open" ELSE "unbound"
       /\ pc' = IF a = "ok" THEN "execute" ELSE "finally_cursor"
  /\ UNCHANGED << locals, filename,
                  connection, deleteExit, result >>

\* lines 33-36: filename is the argument of line 85
Execute ==
  /\ pc = "execute"
  /\ \E a \in Answers :
       /\ calls' = Append(calls, Call("execute", "POSTGRES_TABLE_NAME", filename, {}, a))
       /\ pc' = IF a = "ok" THEN "commit" ELSE "finally_cursor"
  /\ UNCHANGED << locals, filename,
                  connection, cursor, deleteExit, result >>

\* lines 38-40
Commit ==
  /\ pc = "commit"
  /\ \E a \in Answers :
       /\ calls' = Append(calls, Call("commit", "", << >>, {}, a))
       /\ pc' = "finally_cursor"
  /\ UNCHANGED << locals, filename,
                  connection, cursor, deleteExit, result >>

\* lines 46-47: the name cursor is only bound once line 31 has returned
FinallyCursor ==
  /\ pc = "finally_cursor"
  /\ IF cursor = "unbound"
       THEN /\ DeleteRaises("UnboundLocalError")
            /\ UNCHANGED << calls, cursor >>
       ELSE \E a \in Answers :
              /\ calls' = Append(calls, Call("cursor.close", "", << >>, {}, a))
              /\ IF a = "ok"
                   THEN /\ cursor' = "closed"
                        /\ pc' = "finally_connection"
                        /\ UNCHANGED << deleteExit, result >>
                   ELSE /\ DeleteRaises("close error")
                        /\ UNCHANGED cursor
  /\ UNCHANGED << locals, filename, connection >>

\* lines 48-53
FinallyConnection ==
  /\ pc = "finally_connection"
  /\ IF connection = "None"
       THEN /\ deleteExit' = "returned"
            /\ pc' = "add_files"
            /\ UNCHANGED << calls, connection, result >>
       ELSE \E a \in Answers :
              /\ calls' = Append(calls, Call("connection.close", "", << >>, {}, a))
              /\ IF a = "ok"
                   THEN /\ connection' = "closed"
                        /\ deleteExit' = "returned"
                        /\ pc' = "add_files"
                        /\ UNCHANGED result
                   ELSE /\ DeleteRaises("close error")
                        /\ UNCHANGED connection
  /\ UNCHANGED << locals, filename, cursor >>

(* ------------------------------ add_files ----------------------------- *)

\* a variant of lines 132-154 that reads with os.environ.get
ConfigNeverRaises(environ) == FALSE

\* lines 132-144, 153, 154: does reading the configuration raise KeyError
ConfigRaises(environ) == FirstMissing(AddFilesVars, environ) # ""

\* lines 156-172: the overrides that carry a value
Overrides(environ) ==
  {n \in DOMAIN OverrideSource : OverrideSource[n] = "" \/ OverrideSource[n] \in environ}

\* lines 130-181: the exception add_files ends with ("" for none), the call
\* it made, and what it returns
add_files(url, environ, answer) ==
  IF ConfigRaises(environ)
    THEN [exc |-> "KeyError", made |-> << >>, ret |-> NoResult]
  ELSE IF answer = "ok"
    THEN [exc |-> "",
          made |-> << Call("submit_job", "JOB_QUEUE", url, Overrides(environ), answer) >>,
          ret |-> Returned("Started Batch Job")]
    ELSE [exc |-> "ClientError",
          made |-> << Call("submit_job", "JOB_QUEUE", url, Overrides(environ), answer) >>,
          ret |-> NoResult]

\* line 89
SubmitChanged ==
  /\ pc = "add_files"
  /\ \E a \in Answers :
       LET r == add_files(s3_url, env, a)
       IN  /\ calls' = calls \o r.made
           /\ Finish(IF r.exc = "" THEN r.ret ELSE Raised(r.exc))
  /\ UNCHANGED << locals, filename,
                  connection, cursor, deleteExit >>

(* ------------------------------ bulk listing -------------------------- *)

\* lines 94-100: a listing without objects has no 'Contents'
ListObjects ==
  /\ pc = "list_objects"
  /\ IF "S3_BUCKET_NAME" \notin env
       THEN /\ Finish(Raised("KeyError"))
            /\ UNCHANGED << bucket_name, response, contents, calls >>
       ELSE /\ bucket_name' = ConfiguredBucket
            /\ LET prefix == IF "S3_NOTIFICATION_PREFIX" \in env
                               THEN ConfiguredPrefix ELSE << >>
               IN  \/ /\ calls' = Append(calls, Call("list_objects_v2", bucket_name',
                                                     prefix, {}, "error"))
                      /\ Finish(Raised("ClientError"))
                      /\ UNCHANGED << response, contents >>
                   \/ \E listing \in Listings :
                        /\ calls' = Append(calls, Call("list_objects_v2", bucket_name',
                                                       prefix, {}, "ok"))
                        /\ response' = listing
                        /\ contents' = listing
                        /\ pc' = "for_item"
                        /\ UNCHANGED result
  /\ UNCHANGED << env, event, document_key, s3_url, connection, cursor, filename,
                  deleteExit >>

\* a variant of line 107 that skips nothing
NeverFolder(item) == FALSE

\* line 107
IsFolder(item) == item.Size = 0

\* lines 102-118: one round of the loop, or the return after it
ForItem ==
  /\ pc = "for_item"
  /\ IF contents = << >>
       THEN /\ Finish(Returned("Processed existing items."))
            /\ UNCHANGED << document_key, s3_url, contents, calls >>
       ELSE /\ document_key' = Head(contents).Key
            /\ s3_url' = S3Url(bucket_name, document_key')
            /\ contents' = Tail(contents)
            /\ IF IsFolder(Head(contents))
                 THEN UNCHANGED << pc, result, calls >>
                 ELSE \E a \in Answers :
                        LET r == add_files(s3_url', env, a)
                        IN  /\ calls' = calls \o r.made
                            /\ IF r.exc = "" THEN UNCHANGED << pc, result >>
                               ELSE Finish(Raised(r.exc))
  /\ UNCHANGED << env, event, bucket_name, response, connection, cursor, filename,
                  deleteExit >>

(* ------------------------------ the system ---------------------------- *)

\* the platform is done with the invocation; the process stays warm
Complete ==
  /\ pc = "done"
  /\ pc' = "idle"
  /\ event' = NoEvent
  /\ bucket_name' = ""
  /\ document_key' = << >>
  /\ s3_url' = << >>
  /\ response' = << >>
  /\ contents' = << >>
  /\ filename' = << >>
  /\ connection' = "None"
  /\ cursor' = "unbound"
  /\ deleteExit' = "not called"
  /\ calls' = << >>
  /\ result' = NoResult
  /\ UNCHANGED env

Next ==
  \/ \E ev \in Events : Invoke(ev)
  \/ DoesObjectExist
  \/ ReadPostgresConfig
  \/ Connect
  \/ CreateCursor
  \/ Execute
  \/ Commit
  \/ FinallyCursor
  \/ FinallyConnection
  \/ SubmitChanged
  \/ ListObjects
  \/ ForItem
  \/ Complete

Spec == Init /\ [][Next]_vars

(* ------------------------------ properties ---------------------------- *)

CallsOf(op) == SelectSeq(calls, LAMBDA c : c.op = op)
Heads == CallsOf("head_object")
Deletions == CallsOf("delete_from_postgres")
Jobs == CallsOf("submit_job")
Listed == CallsOf("list_objects_v2")
DbOps == {"connect", "cursor", "execute", "commit", "cursor.close", "connection.close"}
DbFailed == \E i \in 1..Len(calls) : calls[i].op \in DbOps /\ calls[i].outcome = "error"

\* an invocation for a storage change, and one for a bulk listing
StorageChange ==
  pc # "idle" /\ event.RequestType # "Delete" /\ event.hasRecords /\ event.Records # << >>
BulkListing ==
  pc # "idle" /\ event.RequestType # "Delete" /\ (~event.hasRecords \/ event.Records = << >>)

\* every name a job is built from is configured
Configured == \A i \in 1..Len(AddFilesVars) : AddFilesVars[i] \in env

Ok200 == result.kind = "return" /\ result.statusCode = 200

\* f is what follows the last '/' of p
IsBasenameOf(f, p) ==
  /\ \A i \in 1..Len(f) : f[i] # "/"
  /\ \E i \in 0..Len(p) : SubSeq(p, i + 1, Len(p)) = f /\ (i = 0 \/ p[i] = "/")

DocsUri(key) == << "s3://", "docs", "/" >> \o key

\* C1: an event whose RequestType is 'Delete', with or without change
\* records, makes the handler return status 200 at once: no existence probe,
\* no listing, no call of delete_from_postgres, no submit_job.
C1_TeardownIsNoOp ==
  event.RequestType = "Delete" =>
    /\ pc = "done"
    /\ Ok200
    /\ calls = << >>
    /\ deleteExit = "not called"

C1_Witness ==
  /\ event.RequestType = "Delete"
  /\ Len(event.Records) = 2
  /\ pc = "done"
  /\ Ok200

\* C2: in a storage-change invocation that has ended, only the first record
\* was consulted: the one probe is for its decoded key; a probe that found the
\* object is followed by exactly one deletion request, for the basename of
\* that key, a probe that reported not-found by none; and in both cases
\* exactly one job request is issued, for the URI of the first record, and
\* none for a later record (the requests being built from the configuration,
\* they are issued when it is in place; its absence is C9's case).
C2_FirstRecordOnly ==
  (StorageChange /\ pc = "done") =>
    LET first == event.Records[1]
        key == decoded_document_with_spaces(first.key)
    IN  /\ Len(Heads) = 1
        /\ Heads[1].target = first.bucket
        /\ Heads[1].arg = key
        /\ Len(Deletions) <= 1
        /\ Len(Jobs) <= 1
        /\ \A i \in 1..Len(Deletions) :
             Heads[1].outcome = "200" /\ IsBasenameOf(Deletions[i].arg, key)
        /\ \A i \in 1..Len(Jobs) : Jobs[i].arg = << "s3://", first.bucket, "/" >> \o key
        /\ (Heads[1].outcome = "404") => Len(Deletions) = 0
        /\ (Heads[1].outcome = "200" /\ Configured) => Len(Deletions) = 1
        /\ (Heads[1].outcome \in {"200", "404"} /\ Configured) => Len(Jobs) = 1
        /\ Ok200 => Len(Jobs) = 1

C2_Witness ==
  /\ StorageChange
  /\ pc = "done"
  /\ Len(event.Records) = 2
  /\ Heads[1].outcome = "200"
  /\ Len(Deletions) = 1
  /\ Deletions[1].arg = << "m", "y", " ", "d", "o", "c", "(", "1", ")" >>
  /\ Len(Jobs) = 1
  /\ Ok200

\* C3: in a storage-change invocation whose object exists, a failure of any
\* step of the deletion (connect, cursor, execute, commit, close) is swallowed:
\* the invocation never ends with the deletion's error, the handler goes on
\* to add_files, and one job request is issued for the storage URI after the
\* last database call.
C3_DeletionFailureSwallowed ==
  (StorageChange /\ (DbFailed \/ deleteExit \notin {"not called", "running", "returned"})) =>
    /\ pc \in {"cursor", "execute", "commit", "finally_cursor", "finally_connection",
               "add_files", "done"}
    /\ pc = "done" =>
         /\ result.kind = "raise" => (result.body = "KeyError" /\ ~Configured)
                                     \/ (result.body = "ClientError" /\ Len(Jobs) = 1)
         /\ Configured =>
              /\ Len(Jobs) = 1
              /\ calls[Len(calls)].op = "submit_job"
              /\ calls[Len(calls)].arg =
                   << "s3://", bucket_name, "/" >> \o Heads[1].arg
         /\ (Configured /\ Jobs[1].outcome = "ok") => Ok200

C3_Witness ==
  /\ StorageChange
  /\ pc = "done"
  /\ deleteExit = "UnboundLocalError"
  /\ connection = "open"
  /\ Len(Jobs) = 1
  /\ Ok200

PlusKey == << "a", "+", "b", ".", "p", "d", "f" >>

\* C4: for the notification with bucket 'docs' and raw key 'a%2Bb.pdf' whose
\* object exists, the deletion request carries filename 'a+b.pdf' and the job
\* is submitted for 's3://docs/a+b.pdf'.
C4_ScenarioKeepsPlus ==
  ( /\ StorageChange
    /\ event.Records[1] = [bucket |-> "docs", key |-> ScenarioKey]
    /\ pc = "done"
    /\ Heads[1].outcome = "200"
    /\ deleteExit = "returned"
    /\ ~DbFailed
    /\ Ok200 ) =>
    /\ Len(Deletions) = 1
    /\ Deletions[1].arg = PlusKey
    /\ Len(Jobs) = 1
    /\ Jobs[1].arg = DocsUri(PlusKey)

\* what the handler does in the scenario of C4: the '+' that percent-decoding
\* produced is turned into a space like any other
C4_ScenarioAsCoded ==
  ( /\ StorageChange
    /\ event.Records[1] = [bucket |-> "docs", key |-> ScenarioKey]
    /\ pc = "done"
    /\ Heads[1].outcome = "200"
    /\ deleteExit = "returned"
    /\ ~DbFailed
    /\ Ok200 ) =>
    /\ Deletions[1].arg = << "a", " ", "b", ".", "p", "d", "f" >>
    /\ Jobs[1].arg = DocsUri(<< "a", " ", "b", ".", "p", "d", "f" >>)

Plain(s) == \A i \in 1..Len(s) : s[i] \notin {"%", "+"}

\* C5: the key the handler works with is the raw key percent-decoded first,
\* and then with every '+' and every '%20' turned into a space; that one key is
\* the key of the existence probe, its basename is the deletion's filename, and
\* the job's URI is built from it; the raw key is used for none of them.
C5_DecodedKeyEverywhere ==
  StorageChange =>
    LET raw == event.Records[1].key
        percentDecoded == unquote(raw)
    IN  /\ document_key =
             replace(replace(percentDecoded, << "+" >>, << " " >>),
                     << "%", "2", "0" >>, << " " >>)
        /\ ~Contains(document_key, << "+" >>)
        /\ ~Contains(document_key, << "%", "2", "0" >>)
        /\ Plain(raw) => document_key = raw
        /\ raw = << "%", "2", "B" >> => document_key = << " " >>
        /\ raw = << "%", "2", "0" >> => document_key = << " " >>
        /\ raw = << "%", "2", "5", "2", "0" >> => document_key = << " " >>
        /\ raw = << "%", "2", "5", "2", "B" >> => document_key = << "%", "2", "B" >>
        /\ raw = << "+", "/", "+" >> => document_key = << " ", "/", " " >>
        /\ \A i \in 1..Len(Heads) : Heads[i].arg = document_key
        /\ \A i \in 1..Len(Deletions) : IsBasenameOf(Deletions[i].arg, document_key)
        /\ \A i \in 1..Len(calls) : calls[i].op = "execute" => calls[i].arg = filename
        /\ \A i \in 1..Len(Jobs) : Jobs[i].arg = << "s3://", bucket_name, "/" >> \o document_key
        /\ s3_url = << "s3://", bucket_name, "/" >> \o document_key

C5_Witness ==
  /\ StorageChange
  /\ pc = "done"
  /\ event.Records[1].key = << "/", "%", "2", "B" >> \/ event.Records[1].key = << "%", "2", "B" >>
  /\ Heads[1].arg # event.Records[1].key
  /\ Len(Deletions) = 1
  /\ Deletions[1].arg = << " " >>
  /\ \E i \in 1..Len(calls) : calls[i].op = "execute"
  /\ Len(Jobs) = 1

\* the jobs the listed objects call for: one for each of nonzero size, in
\* listing order
RECURSIVE ExpectedUris(_)
ExpectedUris(listing) ==
  IF listing = << >> THEN << >>
  ELSE (IF listing[1].Size # 0 THEN << DocsUri(listing[1].Key) >> ELSE << >>)
       \o ExpectedUris(Tail(listing))

Uris(js) == [i \in 1..Len(js) |-> js[i].arg]

\* C6: in a bulk-listing invocation there is no existence probe and no
\* deletion; while the loop runs, the jobs requested are exactly those of the
\* objects visited so far: one for each object of nonzero size, none for an
\* object of size 0, each for the URI of the configured bucket and the
\* object's whole key, in listing order; an invocation that returns has done
\* so for the whole listing, and for an empty listing returns 200 without any
\* job (a submission that fails ends the loop: C9).
C6_BulkListing ==
  BulkListing =>
    LET visited == SubSeq(response, 1, Len(response) - Len(contents))
    IN  /\ Len(Heads) = 0
        /\ Len(Deletions) = 0
        /\ deleteExit = "not called"
        /\ \A i \in 1..Len(calls) : calls[i].op \in {"list_objects_v2", "submit_job"}
        /\ Len(Listed) <= 1
        /\ IsPrefix(Uris(Jobs), ExpectedUris(response))
        /\ pc = "for_item" =>
             /\ Uris(Jobs) = ExpectedUris(visited)
             /\ \A i \in 1..Len(Jobs) : Jobs[i].outcome = "ok"
        /\ (pc = "done" /\ result.kind = "return") =>
             /\ Ok200
             /\ Len(Listed) = 1
             /\ contents = << >>
             /\ Uris(Jobs) = ExpectedUris(response)
             /\ \A i \in 1..Len(Jobs) : Jobs[i].outcome = "ok"
        /\ (pc = "done" /\ Len(Listed) = 1 /\ Listed[1].outcome = "ok" /\ response = << >>) =>
             Ok200 /\ Len(Jobs) = 0

C6_Witness ==
  /\ BulkListing
  /\ pc = "done"
  /\ Ok200
  /\ response = << [Key |-> << "i", "n", "/", "x", ".", "p", "d", "f" >>, Size |-> 10],
                   [Key |-> << "i", "n", "/" >>, Size |-> 0] >>
  /\ Uris(Jobs) = << DocsUri(<< "i", "n", "/", "x", ".", "p", "d", "f" >>) >>

\* C7: in a storage-change invocation, a probe that fails with anything but
\* not-found ends the invocation with that failure, and no deletion request
\* and no job request is issued; not-found alone counts as 'does not exist'.
C7_ProbeFailurePropagates ==
  StorageChange =>
    \A i \in 1..Len(calls) :
      calls[i].op = "head_object" =>
        /\ calls[i].outcome \notin {"200", "404"} =>
             /\ pc = "done"
             /\ result.kind = "raise"
             /\ result.body \in {"ClientError", "EndpointConnectionError"}
             /\ Len(calls) = 1
             /\ deleteExit = "not called"
        /\ (pc = "add_files" /\ Len(calls) = 1) => calls[i].outcome = "404"

C7_Witness ==
  /\ StorageChange
  /\ pc = "done"
  /\ Len(Heads) = 1
  /\ Heads[1].outcome = "403"
  /\ result = Raised("ClientError")

\* C8: whenever delete_from_postgres has ended, it has ended by returning (no
\* error escaped it) and a connection it opened has been closed.
C8_DeleteReleasesAndCatches ==
  deleteExit \notin {"not called", "running"} =>
    /\ deleteExit = "returned"
    /\ connection # "open"

AllOverrides ==
  { "AWS_S3_URL", "AWS_ACCESS_KEY_ID", "AWS_SECRET_ACCESS_KEY", "POSTGRES_DB_NAME",
    "POSTGRES_USER", "POSTGRES_PASSWORD", "POSTGRES_HOST", "POSTGRES_PORT",
    "POSTGRES_TABLE_NAME", "EMBEDDING_PROVIDER", "EMBEDDING_MODEL_NAME",
    "EMBEDDING_PROVIDER_API_KEY", "CHUNKING_STRATEGY", "CHUNKING_MAX_CHARACTERS",
    "LOCAL_FILE_DOWNLOAD_DIR", "APP_SCRIPT" }

\* C9: a failure of add_files is fatal and is not retried: a submit_job that
\* failed is the last call of the invocation, which has ended by raising; with
\* a required value missing no submit_job is made at all and the invocation
\* that got as far as add_files ends with KeyError; every job that is
\* submitted carries all its overrides; an invocation that returned 200 saw
\* no submission fail; and in a bulk listing the jobs of the earlier objects
\* stay submitted while the objects after the failing one get none.
C9_SubmissionFailureIsFatal ==
  /\ \A i \in 1..Len(calls) :
       calls[i].op = "submit_job" =>
         /\ calls[i].overrides = AllOverrides
         /\ calls[i].outcome = "error" =>
              /\ i = Len(calls)
              /\ pc = "done"
              /\ result = Raised("ClientError")
  /\ ~Configured =>
       /\ Len(Jobs) = 0
       /\ pc = "done" => ~Ok200 \/ event.RequestType = "Delete"
                         \/ (BulkListing /\ ExpectedUris(response) = << >>)
       /\ (pc = "done" /\ StorageChange /\ Heads[1].outcome = "404") =>
            result = Raised("KeyError")
  /\ Ok200 => \A i \in 1..Len(Jobs) : Jobs[i].outcome = "ok"
  /\ (BulkListing /\ pc = "done" /\ result.kind = "raise" /\ Len(Listed) = 1
        /\ Listed[1].outcome = "ok") =>
       LET expected == ExpectedUris(response)
       IN  /\ Len(Jobs) <= Len(expected)
           /\ IsPrefix(Uris(Jobs), expected)
           /\ \A i \in 1..Len(Jobs) : i < Len(Jobs) => Jobs[i].outcome = "ok"
           /\ Configured => Jobs[Len(Jobs)].outcome = "error"
           /\ ~Configured => expected # << >>

C9_Witness ==
  /\ BulkListing
  /\ pc = "done"
  /\ result = Raised("ClientError")
  /\ Len(response) = 3
  /\ \A i \in 1..3 : response[i].Size # 0
  /\ Len(Jobs) = 2
  /\ Jobs[1].outcome = "ok"
  /\ Jobs[2].outcome = "error"
  /\ Len(contents) = 1

\* position of the first call of that operation, 0 if there is none
FirstIndex(op) ==
  IF \E i \in 1..Len(calls) : calls[i].op = op
    THEN CHOOSE i \in 1..Len(calls) :
           calls[i].op = op /\ \A j \in 1..(i - 1) : calls[j].op # op
    ELSE 0

\* C10: in a storage-change invocation the external calls come in one order:
\* the existence probe first, then, only if it found the object, the deletion
\* attempt and its database calls, then the job submission as the last call;
\* the job is never submitted while the deletion attempt is still running, and
\* there is at most one probe, one deletion and one submission.
C10_CallOrder ==
  StorageChange =>
    /\ Len(Heads) <= 1
    /\ Len(Deletions) <= 1
    /\ Len(Jobs) <= 1
    /\ calls # << >> => calls[1].op = "head_object"
    /\ Len(Deletions) = 1 =>
         /\ Heads[1].outcome = "200"
         /\ FirstIndex("delete_from_postgres") = 2
    /\ \A i \in 1..Len(calls) :
         /\ calls[i].op \in DbOps => FirstIndex("delete_from_postgres") \in 1..(i - 1)
         /\ calls[i].op = "submit_job" => i = Len(calls)
    /\ Len(Jobs) = 1 =>
         /\ deleteExit # "running"
         /\ pc = "done"
         /\ Heads[1].outcome \in {"200", "404"}
         /\ Heads[1].outcome = "200" => Len(Deletions) = 1
    /\ pc = "add_files" => deleteExit # "running"

C10_Witness ==
  /\ StorageChange
  /\ pc = "done"
  /\ Len(calls) = 9
  /\ calls[1].op = "head_object"
  /\ calls[2].op = "delete_from_postgres"
  /\ calls[5].op = "execute"
  /\ calls[8].op = "connection.close"
  /\ calls[9].op = "submit_job"
  /\ deleteExit = "returned"

====
